---- MODULE Spec2Model ----
(***************************************************************************)
(* Model of cloud/misc/virt.py: the libvirt guest-management module.       *)
(* One invocation of main() is a sequence of steps of core(), the engine   *)
(* (class Virt), the connection wrapper (class LibvirtConnection) and, for *)
(* graceful shutdown, the steps of wait_for_state().  The hypervisor is    *)
(* the environment: a table of domains, the event loop's timers and        *)
(* lifecycle listeners, and a clock.                                       *)
(***************************************************************************)
EXTENDS Integers, Sequences, FiniteSets, TLC

(* ---------------------------------------------------------------------- *)
(* Program constants                                                      *)
(* ---------------------------------------------------------------------- *)
VIRT_FAILED == 1
VIRT_SUCCESS == 0
VIRT_UNAVAILABLE == 2

\* timeout = 5000 (milliseconds) in wait_for_state
TIMEOUT == 5000

\* libvirt.VIR_DOMAIN_SHUTOFF, the target_state LibvirtConnection.shutdown passes
VIR_DOMAIN_SHUTOFF == 5
\* libvirt.VIR_DOMAIN_EVENT_SHUTDOWN / VIR_DOMAIN_EVENT_STOPPED: the lifecycle
\* event codes delivered to event_callback while a guest powers off
VIR_DOMAIN_EVENT_SHUTDOWN == 6
VIR_DOMAIN_EVENT_STOPPED == 5

None == "None"

VM_COMMANDS == {"create", "status", "start", "stop", "pause", "unpause",
                "shutdown", "undefine", "destroy", "get_xml", "autostart",
                "define"}
HOST_COMMANDS == {"freemem", "list_vms", "info", "nodeinfo", "virttype"}
ALL_COMMANDS == VM_COMMANDS \cup HOST_COMMANDS

\* the choices of the state argument, plus one value outside them
STATE_CHOICES == {"running", "shutdown", "destroyed", "paused"}
OtherState == "other"

\* the public methods of class Virt: what getattr(v, command) can find
VirtMethods == {"get_vm", "state", "info", "nodeinfo", "list_vms", "virttype",
                "autostart", "freemem", "shutdown", "pause", "unpause",
                "create", "start", "destroy", "undefine", "status", "get_xml",
                "get_maxVcpus", "get_max_memory", "define"}

\* VIRT_STATE_NAME_MAP.get(state, "unknown")
VIRT_STATE_NAME_MAP(state) ==
    CASE state \in {0, 1, 2} -> "running"
      [] state = 3 -> "paused"
      [] state = 4 -> "shutting_down"
      [] state = 5 -> "shutdown"
      [] state = 6 -> "crashed"
      [] state = 7 -> "suspended"
      [] OTHER -> "unknown"

\* A mutant of Is: identity of two equal strings that were not interned.
IsNeverIdentical(x, y) == FALSE

\* "x is y" on the state strings.  Both operands are identifier-like string
\* literals of this one module, which CPython interns when it builds the code
\* objects, so identity coincides with equality.
Is(x, y) == x = y

(* ---------------------------------------------------------------------- *)
(* Bounds                                                                 *)
(* ---------------------------------------------------------------------- *)
\* number of successive invocations of main() that are explored
MaxInvocations == 2
\* milliseconds that pass while the event loop waits for a lifecycle event
ClockStep == 1000

(* ---------------------------------------------------------------------- *)
(* The hypervisor: domains                                                *)
(* ---------------------------------------------------------------------- *)
Names == {"a", "b"}
RawStates == 0 .. 7

\* a name that matches no domain
Absent == [ex |-> FALSE, st |-> 5, pers |-> FALSE, auto |-> FALSE]
Domain(st, pers) == [ex |-> TRUE, st |-> st, pers |-> pers, auto |-> FALSE]

\* libvirt: an inactive domain is shut off; every other state has a live instance
Active(d) == d.ex /\ d.st # VIR_DOMAIN_SHUTOFF

\* conn.listAllDomains(): every known domain, defined or running
listAllDomains(dm) == {n \in Names : dm[n].ex}
\* A mutant of listPersistentDomains: the flag is dropped, as in find_vm.
listDomainsUnflagged(dm) == {n \in Names : dm[n].ex}

\* conn.listAllDomains(VIR_CONNECT_LIST_DOMAINS_PERSISTENT)
listPersistentDomains(dm) == {n \in Names : dm[n].ex /\ dm[n].pers}

\* power-off of a domain: a transient domain vanishes, a defined one is shut off
PoweredOff(d) == IF d.pers THEN [d EXCEPT !.st = VIR_DOMAIN_SHUTOFF] ELSE Absent

\* The hypervisor actions.  XxxOk is libvirt's precondition for the call to
\* succeed; Xxx is its effect on the domain when it does.
createOk(d) == d.ex /\ ~Active(d)
create(d) == [d EXCEPT !.st = 1]
resumeOk(d) == Active(d)
resume(d) == [d EXCEPT !.st = 1]
suspendOk(d) == Active(d)
suspend(d) == [d EXCEPT !.st = 3]
destroyOk(d) == Active(d)
destroy(d) == PoweredOff(d)
shutdownOk(d) == Active(d)
undefineOk(d) == d.ex /\ d.pers
undefine(d) == IF Active(d) THEN [d EXCEPT !.pers = FALSE, !.auto = FALSE] ELSE Absent
setAutostartOk(d) == d.ex /\ d.pers
setAutostart(d) == [d EXCEPT !.auto = TRUE]
\* conn.defineXML(xml): the document names the domain it defines
defineXML(d) == IF d.ex THEN [d EXCEPT !.pers = TRUE] ELSE Domain(VIR_DOMAIN_SHUTOFF, TRUE)

\* xml documents: None, one that the hypervisor rejects, or a valid
\* document, which carries the name of the domain it defines
InvalidXml == "<domain>"
ValidXml == {"<domain><name>a</name></domain>", "<domain><name>b</name></domain>"}
XmlDocs == {None, InvalidXml} \cup ValidXml
\* the <name> element the hypervisor reads from a valid document
XmlName(xml) ==
    CASE xml = "<domain><name>a</name></domain>" -> "a"
      [] xml = "<domain><name>b</name></domain>" -> "b"

(* ---------------------------------------------------------------------- *)
(* Requests                                                               *)
(* ---------------------------------------------------------------------- *)
Request(state, command, name, xml) ==
    [state |-> state, command |-> command, name |-> name, xml |-> xml]

\* module.params of the invocations that are explored
Requests ==
    {Request(s, None, n, None) : s \in STATE_CHOICES \cup {OtherState}, n \in {None, "a"}}
    \cup {Request(s, c, "a", None) : s \in STATE_CHOICES, c \in ALL_COMMANDS}
    \cup {Request(None, c, n, None) : c \in ALL_COMMANDS \ {"define"}, n \in {None, "a"}}
    \cup {Request(None, "define", n, x) : n \in {None, "a"}, x \in XmlDocs}
    \cup {Request(None, None, n, None) : n \in {None, "a"}}

(* ---------------------------------------------------------------------- *)
(* State                                                                  *)
(* ---------------------------------------------------------------------- *)
VARIABLES
    dom,            \* the hypervisor's domains, by name
    dom0,           \* the domains as they were when the invocation started
    pending,        \* domains that accepted a graceful shutdown and have not powered off yet
    clock,          \* time.time() * 1000
    req,            \* module.params of the running invocation
    pc,             \* position of the invocation
    res,            \* core's res dictionary
    exc,            \* the exception that is propagating, or None
    obs,            \* the status strings core has read, in order
    readFailed,     \* the guests whose state read raised while list_vms ran
    issued,         \* the hypervisor actions invoked by this invocation, in order
    current_state,  \* wait_for_state's local current_state
    end_time,       \* wait_for_state's local end_time
    deadline,       \* expiry time of the timer armed by wait_for_state
    timers,         \* timer ids registered with the event loop
    listeners,      \* lifecycle callbacks registered on the connection
    evq,            \* lifecycle events waiting to be dispatched to the callback
    notified,       \* events event_callback has been invoked with
    wret,           \* <<v>> once wait_for_state has returned v, <<>> before
    connOpen,       \* the libvirt connection of the invocation is open
    hist            \* summaries of the finished invocations

vars == <<dom, dom0, pending, clock, req, pc, res, exc, obs, readFailed, issued, current_state,
          end_time, deadline, timers, listeners, evq, notified, wret,
          connOpen, hist>>

hvVars == <<dom, pending>>
waitVars == <<current_state, end_time, deadline, timers, listeners, evq,
              notified, wret, clock>>

NoRequest == Request(None, None, None, None)

\* a transient domain has no inactive form
InitDomainsA ==
    {Absent} \cup {Domain(st, TRUE) : st \in RawStates}
             \cup {Domain(st, FALSE) : st \in RawStates \ {VIR_DOMAIN_SHUTOFF}}
InitDomainsB == {Absent, Domain(1, TRUE), Domain(VIR_DOMAIN_SHUTOFF, TRUE)}

Init ==
    /\ dom \in {d \in [Names -> InitDomainsA \cup InitDomainsB] :
                  d["a"] \in InitDomainsA /\ d["b"] \in InitDomainsB}
    /\ dom0 = dom
    /\ pending = {}
    /\ clock = 0
    /\ req = NoRequest
    /\ pc = "idle"
    /\ res = <<>>
    /\ exc = None
    /\ obs = <<>>
    /\ readFailed = {}
    /\ issued = <<>>
    /\ current_state = 0
    /\ end_time = 0
    /\ deadline = 0
    /\ timers = {}
    /\ listeners = {}
    /\ evq = <<>>
    /\ notified = <<>>
    /\ wret = <<>>
    /\ connOpen = FALSE
    /\ hist = <<>>

(* ---------------------------------------------------------------------- *)
(* main(): start of an invocation                                         *)
(* ---------------------------------------------------------------------- *)
\* main() up to the call of core(): a fresh process, a fresh connection.
\* A repeated invocation repeats the request of the one before it.
Invoke(r) ==
    /\ pc = "idle"
    /\ Len(hist) < MaxInvocations
    /\ Len(hist) > 0 => r = hist[Len(hist)].req
    /\ req' = r
    /\ pc' = "core"
    /\ res' = <<>>
    /\ exc' = None
    /\ obs' = <<>>
    /\ readFailed' = {}
    /\ issued' = <<>>
    /\ current_state' = 0
    /\ end_time' = 0
    /\ deadline' = 0
    /\ timers' = {}
    /\ listeners' = {}
    /\ evq' = <<>>
    /\ notified' = <<>>
    /\ wret' = <<>>
    /\ connOpen' = TRUE
    /\ dom0' = dom
    /\ UNCHANGED <<dom, pending, clock, hist>>

(* ---------------------------------------------------------------------- *)
(* core(): state mode                                                     *)
(* ---------------------------------------------------------------------- *)
\* Python truthiness of a parameter
Truthy(x) == x # None

\* core returns (VIRT_SUCCESS, r)
Return(r) == pc' = "returned" /\ res' = r /\ exc' = None
\* module.fail_json(...): the process exits
FailJson == pc' = "failed" /\ res' = res /\ exc' = "SystemExit"
\* an exception leaves core
Raise(e) == pc' = "raised" /\ res' = res /\ exc' = e
\* v.xxx(guest) is called next
Call(method, r) == pc' = method /\ res' = r /\ exc' = None

\* A mutant of SetResult: the returned value replaces the result of state mode.
SetResultAlone(ret) ==
    IF Truthy(req.state) THEN ("msg" :> ret) ELSE (req.command :> ret)

\* the value a guest operation returned goes into the result: res['msg'] in
\* state mode, { command: res } in command mode
SetResult(ret) ==
    IF Truthy(req.state) THEN ("msg" :> ret) @@ res ELSE (req.command :> ret)

\* A mutant of NotFoundCaught: every branch of core swallows VMNotFound.
NotFoundAlwaysCaught == TRUE

\* A mutant of NotFoundCaught: no except clause, VMNotFound propagates.
NotFoundNeverCaught == FALSE

\* the try ... except VMNotFound: pass around the shutdown and destroyed branches
NotFoundCaught == req.state \in {"shutdown", "destroyed"}

\* Virt.status(guest): the classified state of the guest, which must exist
status(guest) == VIRT_STATE_NAME_MAP(dom[guest].st)

\* if not guest: module.fail_json("state change requires a guest specified")
CoreStateNoGuest ==
    /\ pc = "core"
    /\ Truthy(req.state) /\ req.command # "list_vms"
    /\ ~Truthy(req.name)
    /\ FailJson
    /\ UNCHANGED <<hvVars, waitVars, req, obs, readFailed, issued, dom0, connOpen, hist>>

\* else: module.fail_json(msg="unexpected state")
CoreUnexpectedState ==
    /\ pc = "core"
    /\ Truthy(req.state) /\ req.command # "list_vms"
    /\ Truthy(req.name)
    /\ req.state \notin STATE_CHOICES
    /\ FailJson
    /\ UNCHANGED <<hvVars, waitVars, req, obs, readFailed, issued, dom0, connOpen, hist>>

\* A mutant of ShutdownSettled: the tuple of the destroyed branch is used.
ShutdownSettledShort == {"shutdown", "crashed"}

\* v.status(guest) not in ('shutdown', 'shutting_down', 'crashed')
ShutdownSettled == {"shutdown", "shutting_down", "crashed"}
\* A mutant of DestroyedSettled: a guest that is shut off is destroyed again.
DestroyedSettledCrashedOnly == {"crashed"}

\* v.status(guest) not in ('shutdown', 'crashed')
DestroyedSettled == {"shutdown", "crashed"}
\* A mutant of NeedsPause: every guest that is not paused yet is paused.
NeedsPauseUnlessPaused(s) == ~Is(s, "paused")

\* v.status(guest) is 'running', the test of the paused branch
NeedsPause(s) == Is(s, "running")

\* the branch of the if/elif chain on state, after its first v.status(guest)
StateBranch(s) ==
    LET unchangedRes == [changed |-> FALSE]
        changedRes == [changed |-> TRUE]
    IN CASE req.state = "running" ->
              IF Is(s, "paused") THEN Call("unpause", changedRes)
              ELSE Call("status2", unchangedRes)
         [] req.state = "shutdown" ->
              IF s \notin ShutdownSettled
              THEN Call("shutdown", changedRes)
              ELSE Return(unchangedRes)
         [] req.state = "destroyed" ->
              IF s \notin DestroyedSettled
              THEN Call("destroy", changedRes)
              ELSE Return(unchangedRes)
         [] req.state = "paused" ->
              IF NeedsPause(s) THEN Call("pause", changedRes)
              ELSE Return(unchangedRes)

\* res['changed'] = False and the first v.status(guest) of the requested state
CoreStatus ==
    /\ pc = "core"
    /\ Truthy(req.state) /\ req.command # "list_vms"
    /\ Truthy(req.name)
    /\ req.state \in STATE_CHOICES
    /\ IF req.name \in listAllDomains(dom)
       THEN /\ obs' = Append(obs, status(req.name))
            /\ StateBranch(status(req.name))
       ELSE /\ obs' = obs
            /\ IF NotFoundCaught THEN Return([changed |-> FALSE])
               ELSE /\ Raise("VMNotFound")
    /\ UNCHANGED <<hvVars, waitVars, req, readFailed, issued, dom0, connOpen, hist>>

\* elif v.status(guest) is not 'running': the second read of the running branch
CoreStatus2 ==
    /\ pc = "status2"
    /\ IF req.name \in listAllDomains(dom)
       THEN /\ obs' = Append(obs, status(req.name))
            /\ IF ~Is(status(req.name), "running")
               THEN Call("start", [changed |-> TRUE])
               ELSE Return(res)
       ELSE /\ obs' = obs
            /\ Raise("VMNotFound")
    /\ UNCHANGED <<hvVars, waitVars, req, readFailed, issued, dom0, connOpen, hist>>

(* ---------------------------------------------------------------------- *)
(* Guest operations of Virt / LibvirtConnection                           *)
(* ---------------------------------------------------------------------- *)
\* find_vm(vmid) raised VMNotFound inside a guest operation
NotFound ==
    /\ IF NotFoundCaught THEN Return(res) ELSE Raise("VMNotFound")
    /\ UNCHANGED <<hvVars, issued>>

\* self.find_vm(vmid).<op>(): the lookup, then one hypervisor call, which
\* either succeeds (libvirt accepts it in the domain's state) or raises
\* libvirtError
Ok(op, d) ==
    CASE op = "resume" -> resumeOk(d)
      [] op = "create" -> createOk(d)
      [] op = "suspend" -> suspendOk(d)
      [] op = "destroy" -> destroyOk(d)

Effect(op, d) ==
    CASE op = "resume" -> resume(d)
      [] op = "create" -> create(d)
      [] op = "suspend" -> suspend(d)
      [] op = "destroy" -> destroy(d)

GuestOp(op) ==
    /\ IF req.name \in listAllDomains(dom)
       THEN /\ issued' = Append(issued, <<op, req.name>>)
            /\ \/ /\ Ok(op, dom[req.name])
                  /\ dom' = [dom EXCEPT ![req.name] = Effect(op, @)]
                  /\ pending' = IF Active(Effect(op, dom[req.name]))
                                THEN pending ELSE pending \ {req.name}
                  /\ Return(SetResult(0))
               \/ /\ Raise("libvirtError")
                  /\ UNCHANGED hvVars
       ELSE NotFound
    /\ UNCHANGED <<waitVars, req, obs, readFailed, dom0, connOpen, hist>>

\* Virt.unpause -> LibvirtConnection.resume
VirtUnpause ==
    /\ pc = "unpause"
    /\ GuestOp("resume")
\* Virt.start -> LibvirtConnection.create
VirtStart ==
    /\ pc = "start"
    /\ GuestOp("create")
\* Virt.create -> LibvirtConnection.create
VirtCreate ==
    /\ pc = "create"
    /\ GuestOp("create")
\* Virt.pause -> LibvirtConnection.suspend
VirtPause ==
    /\ pc = "pause"
    /\ GuestOp("suspend")
\* Virt.destroy -> LibvirtConnection.destroy
VirtDestroy ==
    /\ pc = "destroy"
    /\ GuestOp("destroy")

\* Virt.undefine -> LibvirtConnection.undefine: only a persistently defined
\* guest is undefined; VMNotFound from find_defined_vm becomes the value 0
VirtUndefine ==
    /\ pc = "undefine"
    /\ IF req.name \in listPersistentDomains(dom)
       THEN /\ issued' = Append(issued, <<"undefine", req.name>>)
            /\ \/ /\ undefineOk(dom[req.name])
                  /\ dom' = [dom EXCEPT ![req.name] = undefine(@)]
                  /\ Return(SetResult(0))
               \/ /\ Raise("libvirtError")
                  /\ dom' = dom
       ELSE /\ Return(SetResult(0))
            /\ UNCHANGED <<dom, issued>>
    /\ UNCHANGED <<pending, waitVars, req, obs, readFailed, dom0, connOpen, hist>>

\* Virt.status -> LibvirtConnection.get_status
VirtStatus ==
    /\ pc = "status"
    /\ IF req.name \in listAllDomains(dom)
       THEN Return(SetResult(status(req.name)))
       ELSE Raise("VMNotFound")
    /\ UNCHANGED <<hvVars, waitVars, req, obs, readFailed, issued, dom0, connOpen, hist>>

\* Virt.get_xml -> LibvirtConnection.get_xml: lookupByName, then XMLDesc(0)
VirtGetXml ==
    /\ pc = "get_xml"
    /\ IF req.name \in listAllDomains(dom)
       THEN Return(SetResult(req.name))
       ELSE Raise("libvirtError")
    /\ UNCHANGED <<hvVars, waitVars, req, obs, readFailed, issued, dom0, connOpen, hist>>

\* Virt.autostart -> LibvirtConnection.set_autostart(vmid, True)
VirtAutostart ==
    /\ pc = "autostart"
    /\ IF req.name \in listAllDomains(dom)
       THEN /\ issued' = Append(issued, <<"setAutostart", req.name>>)
            /\ \/ /\ setAutostartOk(dom[req.name])
                  /\ dom' = [dom EXCEPT ![req.name] = setAutostart(@)]
                  /\ Return(SetResult(0))
               \/ /\ Raise("libvirtError")
                  /\ dom' = dom
       ELSE /\ Raise("libvirtError")
            /\ UNCHANGED <<dom, issued>>
    /\ UNCHANGED <<pending, waitVars, req, obs, readFailed, dom0, connOpen, hist>>

(* ---------------------------------------------------------------------- *)
(* LibvirtConnection.wait_for_state (Virt.shutdown)                       *)
(* ---------------------------------------------------------------------- *)
\* target_state of LibvirtConnection.shutdown
target_state == VIR_DOMAIN_SHUTOFF

\* event_callback(conn, domain, event, detail, opaque): "current_state = event"
\* binds a local of the callback; the current_state of wait_for_state that
\* the loop tests keeps its value
event_callback(cur, event) == cur

\* A mutant of RemainingBudget: the operands of the subtraction are swapped.
ElapsedBudget(end, now) == now - end

\* timeout = int(end_time - now)
RemainingBudget(end, now) == end - now

callback_id == 0
timer_id == 1

\* vm = self.find_vm(vmid); current_state = vm.info()[0]
WaitFind ==
    /\ pc = "shutdown"
    /\ IF req.name \in listAllDomains(dom)
       THEN /\ current_state' = dom[req.name].st
            /\ Call("w_register", res)
       ELSE /\ current_state' = current_state
            /\ IF NotFoundCaught THEN Return(res) ELSE Raise("VMNotFound")
    /\ UNCHANGED <<hvVars, end_time, deadline, timers, listeners, evq, notified,
                   wret, clock, req, obs, readFailed, issued, dom0, connOpen, hist>>

\* A mutant of domainEventRegisterAny: the callback is not attached yet when
\* the action is invoked.
domainEventRegisterLater(ls, id, n) == ls

\* self.conn.domainEventRegisterAny(vm, VIR_DOMAIN_EVENT_ID_LIFECYCLE, event_callback, None)
domainEventRegisterAny(ls, id, n) == ls \cup {[id |-> id, dom |-> n]}

\* domainEventRegisterAny(vm, LIFECYCLE, event_callback); end_time = now + timeout;
\* timer_id = virEventAddTimeout(timeout, timer_callback)
WaitRegister ==
    /\ pc = "w_register"
    /\ listeners' = domainEventRegisterAny(listeners, callback_id, req.name)
    /\ end_time' = clock + TIMEOUT
    /\ timers' = timers \cup {timer_id}
    /\ deadline' = clock + TIMEOUT
    /\ Call("w_action", res)
    /\ UNCHANGED <<hvVars, current_state, evq, notified, wret, clock, req, obs, readFailed,
                   issued, dom0, connOpen, hist>>

\* action(vm), i.e. vm.shutdown(): the guest is asked to power off
WaitAction ==
    /\ pc = "w_action"
    /\ issued' = Append(issued, <<"shutdown", req.name>>)
    /\ \/ /\ shutdownOk(dom[req.name])
          /\ pending' = pending \cup {req.name}
          /\ Call("w_loop", res)
       \/ /\ Raise("libvirtError")
          /\ pending' = pending
    /\ UNCHANGED <<dom, waitVars, req, obs, readFailed, dom0, connOpen, hist>>

\* the rest of a loop iteration after virEventRunDefaultImpl() returned at
\* time now: recompute the budget, leave the loop or re-arm the timer
AfterDispatch(now) ==
    /\ clock' = now
    /\ IF RemainingBudget(end_time, now) <= 0
       THEN /\ Call("w_cleanup", res)
            /\ deadline' = deadline
       ELSE /\ Call("w_loop", res)
            /\ deadline' = now + RemainingBudget(end_time, now)

\* a loop iteration in which virEventRunDefaultImpl() dispatches a lifecycle
\* event to event_callback
WaitDispatchEvent ==
    /\ pc = "w_loop"
    /\ current_state # target_state
    /\ evq # <<>>
    /\ notified' = Append(notified, Head(evq))
    /\ current_state' = event_callback(current_state, Head(evq))
    /\ evq' = Tail(evq)
    /\ AfterDispatch(clock + ClockStep)
    /\ UNCHANGED <<hvVars, end_time, timers, listeners, wret, req, obs, readFailed, issued,
                   dom0, connOpen, hist>>

\* a loop iteration in which nothing but the timer fires: timer_callback
\* does nothing
WaitDispatchTimer ==
    /\ pc = "w_loop"
    /\ current_state # target_state
    /\ evq = <<>>
    /\ timer_id \in timers
    /\ AfterDispatch(IF clock < deadline THEN deadline ELSE clock)
    /\ UNCHANGED <<hvVars, current_state, end_time, timers, listeners, evq,
                   notified, wret, req, obs, readFailed, issued, dom0, connOpen, hist>>

\* libvirt.virEventRemoveTimeout(timer_id)
virEventRemoveTimeout(ts, id) == ts \ {id}
\* A mutant of domainEventDeregisterAny: the callback stays registered.
domainEventStaysRegistered(ls, id) == ls

\* self.conn.domainEventDeregisterAny(callback_id)
domainEventDeregisterAny(ls, id) == {l \in ls : l.id # id}
\* return 0 if current_state == target_state else -1
WaitResult(cur, target) == IF cur = target THEN 0 ELSE -1

\* The loop is left, by its test (current_state == target_state) or by the
\* break; then virEventRemoveTimeout(timer_id),
\* domainEventDeregisterAny(callback_id) and the return
WaitCleanup ==
    /\ \/ pc = "w_cleanup"
       \/ pc = "w_loop" /\ current_state = target_state
    /\ timers' = virEventRemoveTimeout(timers, timer_id)
    /\ listeners' = domainEventDeregisterAny(listeners, callback_id)
    /\ evq' = <<>>
    /\ wret' = <<WaitResult(current_state, target_state)>>
    /\ Return(SetResult(WaitResult(current_state, target_state)))
    /\ UNCHANGED <<hvVars, current_state, end_time, deadline, notified, clock,
                   req, obs, readFailed, issued, dom0, connOpen, hist>>

\* The guest that accepted a graceful shutdown powers off on its own: first
\* the guest OS halts (event SHUTDOWN), then the domain stops (event STOPPED).
\* A registered lifecycle listener of the domain gets the event queued.
\* The guest takes these steps while the invocation waits in the event loop
\* or between two invocations; the straight-line code of core is not
\* interleaved with them.
GuestMayAct == pc \in {"idle", "w_loop"}

Emit(n, event) ==
    IF \E l \in listeners : l.dom = n THEN Append(evq, event) ELSE evq

GuestHalts(n) ==
    /\ GuestMayAct
    /\ n \in pending
    /\ Active(dom[n])
    /\ dom[n].st # 4
    /\ dom' = [dom EXCEPT ![n].st = 4]
    /\ evq' = Emit(n, VIR_DOMAIN_EVENT_SHUTDOWN)
    /\ UNCHANGED <<pending, clock, req, pc, res, exc, obs, readFailed, issued, current_state,
                   end_time, deadline, timers, listeners, notified, wret,
                   dom0, connOpen, hist>>

GuestStops(n) ==
    /\ GuestMayAct
    /\ n \in pending
    /\ Active(dom[n])
    /\ dom' = [dom EXCEPT ![n] = PoweredOff(@)]
    /\ pending' = pending \ {n}
    /\ evq' = Emit(n, VIR_DOMAIN_EVENT_STOPPED)
    /\ UNCHANGED <<clock, req, pc, res, exc, obs, readFailed, issued, current_state,
                   end_time, deadline, timers, listeners, notified, wret,
                   dom0, connOpen, hist>>

(* ---------------------------------------------------------------------- *)
(* core(): listing and command mode                                       *)
(* ---------------------------------------------------------------------- *)
\* Virt.list_vms(state): the names of the known guests, all of them or
\* those whose classified state equals the filter
\* A mutant of list_vms: the filter is not applied.
list_vmsUnfiltered(dm, state, failed) == listAllDomains(dm)

\* with a filter, a guest whose state read (get_status2) raises is passed over
list_vms(dm, state, failed) ==
    {n \in listAllDomains(dm) :
        Truthy(state) => (n \notin failed /\ VIRT_STATE_NAME_MAP(dm[n].st) = state)}

\* Virt.info(): a dictionary keyed by guest name
info(dm) ==
    [n \in listAllDomains(dm) |->
        [state |-> VIRT_STATE_NAME_MAP(dm[n].st), autostart |-> dm[n].auto]]

\* if state and command == 'list_vms'
CoreListVmsFiltered ==
    /\ pc = "core"
    /\ Truthy(req.state) /\ req.command = "list_vms"
    /\ \E failed \in SUBSET listAllDomains(dom) :
          /\ readFailed' = failed
          /\ Return("list_vms" :> list_vms(dom, req.state, failed))
    /\ UNCHANGED <<hvVars, waitVars, req, obs, issued, dom0, connOpen, hist>>

CommandMode == pc = "core" /\ ~Truthy(req.state) /\ Truthy(req.command)

\* if not guest: module.fail_json("%s requires 1 argument: guest")
CoreCmdNoGuest ==
    /\ CommandMode
    /\ req.command \in VM_COMMANDS
    /\ ~Truthy(req.name)
    /\ FailJson
    /\ UNCHANGED <<hvVars, waitVars, req, obs, readFailed, issued, dom0, connOpen, hist>>

\* if not xml: module.fail_json("define requires xml argument")
CoreDefineNoXml ==
    /\ CommandMode
    /\ req.command = "define"
    /\ Truthy(req.name)
    /\ ~Truthy(req.xml)
    /\ FailJson
    /\ UNCHANGED <<hvVars, waitVars, req, obs, readFailed, issued, dom0, connOpen, hist>>

\* try: v.get_vm(guest) / except VMNotFound: v.define(xml); the hypervisor
\* defines the domain that the document names, or rejects the document
CoreDefine ==
    /\ CommandMode
    /\ req.command = "define"
    /\ Truthy(req.name)
    /\ Truthy(req.xml)
    /\ IF req.name \in listAllDomains(dom)
       THEN /\ Return(<<>>)
            /\ UNCHANGED <<dom, issued>>
       ELSE /\ issued' = Append(issued, <<"defineXML", req.xml>>)
            /\ \/ /\ req.xml # InvalidXml
                  /\ dom' = [dom EXCEPT ![XmlName(req.xml)] = defineXML(@)]
                  /\ Return([changed |-> TRUE, created |-> req.name])
               \/ /\ req.xml = InvalidXml
                  /\ Raise("libvirtError")
                  /\ dom' = dom
    /\ UNCHANGED <<pending, waitVars, req, obs, readFailed, dom0, connOpen, hist>>

\* res = getattr(v, command)(guest): the method of Virt named by the command
CoreVmCommand ==
    /\ CommandMode
    /\ req.command \in VM_COMMANDS \ {"define"}
    /\ Truthy(req.name)
    /\ IF req.command \in VirtMethods
       THEN Call(req.command, res)
       ELSE Raise("AttributeError")
    /\ UNCHANGED <<hvVars, waitVars, req, obs, readFailed, issued, dom0, connOpen, hist>>

\* elif hasattr(v, command): res = getattr(v, command)()
CoreHostCommand ==
    /\ CommandMode
    /\ req.command \notin VM_COMMANDS
    /\ req.command \in VirtMethods
    /\ Return(CASE req.command = "list_vms" -> "list_vms" :> list_vms(dom, None, {})
                [] req.command = "info" -> info(dom)
                [] req.command = "nodeinfo" -> [cpus |-> "1"]
                [] OTHER -> req.command :> 0)
    /\ UNCHANGED <<hvVars, waitVars, req, obs, readFailed, issued, dom0, connOpen, hist>>

\* module.fail_json("expected state or command parameter to be specified")
CoreNoStateNoCommand ==
    /\ pc = "core"
    /\ ~Truthy(req.state) /\ ~Truthy(req.command)
    /\ FailJson
    /\ UNCHANGED <<hvVars, waitVars, req, obs, readFailed, issued, dom0, connOpen, hist>>

(* ---------------------------------------------------------------------- *)
(* main(): end of an invocation                                           *)
(* ---------------------------------------------------------------------- *)
\* what class LibvirtConnection defines
LibvirtConnectionMethods ==
    {"find_defined_vm", "find_vm", "wait_for_state", "shutdown", "pause",
     "unpause", "suspend", "resume", "create", "destroy", "undefine",
     "get_status2", "get_status", "nodeinfo", "get_type", "get_xml",
     "get_maxVcpus", "get_maxMemory", "getFreeMemory", "get_autostart",
     "set_autostart", "define_from_xml"}

\* Virt.__exit__: try: self.conn.close() / except: pass.  self.conn is the
\* LibvirtConnection wrapper.
exit(open) == IF "close" \in LibvirtConnectionMethods THEN FALSE ELSE open

\* how main() ends: exit_json(**result) after core returned, fail_json otherwise
Outcome(p) == IF p = "returned" THEN "exit_json" ELSE "fail_json"

Summary ==
    [req |-> req, outcome |-> Outcome(pc), exc |-> exc, res |-> res,
     obs |-> obs, issued |-> issued, timers |-> timers,
     listeners |-> listeners, wret |-> wret, notified |-> notified,
     dom0 |-> dom0, dom |-> dom, connOpen |-> exit(connOpen)]

\* the with block is left, the result or the failure is emitted, the process ends
MainExit ==
    /\ pc \in {"returned", "failed", "raised"}
    /\ connOpen' = exit(connOpen)
    /\ hist' = Append(hist, Summary)
    /\ pc' = "idle"
    /\ UNCHANGED <<hvVars, waitVars, req, res, exc, obs, readFailed, issued, dom0>>

(* ---------------------------------------------------------------------- *)
(* Specification                                                          *)
(* ---------------------------------------------------------------------- *)
Next ==
    \/ \E r \in Requests : Invoke(r)
    \/ CoreListVmsFiltered
    \/ CoreStateNoGuest
    \/ CoreUnexpectedState
    \/ CoreStatus
    \/ CoreStatus2
    \/ CoreCmdNoGuest
    \/ CoreDefineNoXml
    \/ CoreDefine
    \/ CoreVmCommand
    \/ CoreHostCommand
    \/ CoreNoStateNoCommand
    \/ VirtUnpause
    \/ VirtStart
    \/ VirtCreate
    \/ VirtPause
    \/ VirtDestroy
    \/ VirtUndefine
    \/ VirtStatus
    \/ VirtGetXml
    \/ VirtAutostart
    \/ WaitFind
    \/ WaitRegister
    \/ WaitAction
    \/ WaitDispatchEvent
    \/ WaitDispatchTimer
    \/ WaitCleanup
    \/ \E n \in Names : GuestHalts(n)
    \/ \E n \in Names : GuestStops(n)
    \/ MainExit

Spec == Init /\ [][Next]_vars

\* The event-dispatch call returns (at the latest when the armed timer
\* fires) and the code after the loop runs.
SpecFair ==
    /\ Spec
    /\ WF_vars(WaitDispatchEvent \/ WaitDispatchTimer)
    /\ WF_vars(WaitCleanup)

\* Another client of the hypervisor removes guest n (destroys and undefines
\* it) in the window between core's v.status(guest) and the find_vm of
\* v.shutdown(guest) / v.destroy(guest).
ExternalRemove(n) ==
    /\ pc \in {"shutdown", "destroy"}
    /\ dom[n].ex
    /\ dom' = [dom EXCEPT ![n] = Absent]
    /\ pending' = pending \ {n}
    /\ UNCHANGED <<clock, req, pc, res, exc, obs, readFailed, issued, current_state,
                   end_time, deadline, timers, listeners, evq, notified, wret,
                   dom0, connOpen, hist>>

NextRace ==
    \/ Next
    \/ \E n \in Names : ExternalRemove(n)

\* the invocations with a concurrent client of the hypervisor
SpecRace == Init /\ [][NextRace]_vars

TypeOK ==
    /\ pc \in {"idle", "core", "status2", "unpause", "start", "create",
               "pause", "destroy", "undefine", "status", "get_xml",
               "autostart", "shutdown", "w_register", "w_action", "w_loop",
               "w_cleanup", "returned", "failed", "raised"}
    /\ Len(hist) <= MaxInvocations

(* ---------------------------------------------------------------------- *)
(* Properties                                                             *)
(* ---------------------------------------------------------------------- *)
\* core has ended: it returned, exited through fail_json, or raised
Ended == pc \in {"returned", "failed", "raised"}
\* the invocation took the state branch of core with a guest name
StatePath(state) ==
    /\ req.state = state
    /\ req.command # "list_vms"
    /\ Truthy(req.name)
\* the result dictionary carries changed=True / changed=False
ReportsChanged(r) == "changed" \in DOMAIN r /\ r["changed"] = TRUE
ReportsUnchanged(r) == "changed" \in DOMAIN r /\ r["changed"] = FALSE
\* exactly this one hypervisor action was invoked on the requested guest
IssuedOnly(op) == issued = <<<<op, req.name>>>>
IssuedNothing == issued = <<>>

\* C1: in every completed invocation of core the result reports changed=true
\* if and only if a hypervisor-mutating action was invoked during it.
C1_ChangedIffMutated ==
    pc = "returned" => (ReportsChanged(res) <=> ~IssuedNothing)

\* C2: state 'running' on an existing guest: observed paused, exactly one
\* resume is issued and, when core returns, the guest is running and
\* changed=true; observed running, nothing is issued and changed=false is
\* returned; any other observed state, exactly one start (create) is issued
\* and changed=true is reported when core returns.
C2_RunningReconciled ==
    (Ended /\ StatePath("running") /\ obs # <<>>) =>
        /\ obs[1] = "paused" =>
              /\ IssuedOnly("resume")
              /\ pc = "returned" =>
                    ReportsChanged(res) /\ status(req.name) = "running"
        /\ obs[1] = "running" =>
              IssuedNothing /\ pc = "returned" /\ ReportsUnchanged(res)
        /\ obs[1] \notin {"paused", "running"} =>
              /\ IssuedOnly("create")
              /\ pc = "returned" => ReportsChanged(res)

C2_Witness ==
    /\ pc = "returned" /\ StatePath("running")
    /\ obs = <<"paused">>
    /\ IssuedOnly("resume")
    /\ ReportsChanged(res)
    /\ dom0[req.name].st = 3 /\ dom[req.name].st = 1

\* C3: state 'shutdown' or 'destroyed' for a name that matches no guest:
\* core returns success with changed=false and invokes no hypervisor action.
C3_AbsentGuestTolerated ==
    [][(/\ pc = "core"
        /\ (StatePath("shutdown") \/ StatePath("destroyed"))
        /\ req.name \notin listAllDomains(dom)
        /\ pc' # pc)
       => (/\ pc' = "returned"
           /\ ReportsUnchanged(res')
           /\ issued' = <<>>
           /\ dom' = dom)]_vars

C3_Witness ==
    /\ pc = "returned"
    /\ req.state \in {"shutdown", "destroyed"} /\ req.command = None
    /\ ~dom0[req.name].ex
    /\ ReportsUnchanged(res) /\ IssuedNothing

\* C4: existing guest: state 'shutdown' issues the graceful shutdown and
\* reports changed=true exactly when the observed state is not in {shutdown,
\* shutting_down, crashed}; state 'destroyed' issues destroy and reports
\* changed=true exactly when it is not in {shutdown, crashed}; otherwise
\* nothing is issued and changed=false is returned.
C4_ShutdownDestroyReconciled ==
    /\ (Ended /\ StatePath("shutdown") /\ obs # <<>>) =>
          IF obs[1] \notin {"shutdown", "shutting_down", "crashed"}
          THEN IssuedOnly("shutdown") /\ (pc = "returned" => ReportsChanged(res))
          ELSE IssuedNothing /\ pc = "returned" /\ ReportsUnchanged(res)
    /\ (Ended /\ StatePath("destroyed") /\ obs # <<>>) =>
          IF obs[1] \notin {"shutdown", "crashed"}
          THEN IssuedOnly("destroy") /\ (pc = "returned" => ReportsChanged(res))
          ELSE IssuedNothing /\ pc = "returned" /\ ReportsUnchanged(res)

C4_Witness ==
    /\ pc = "returned" /\ StatePath("shutdown")
    /\ obs = <<"running">>
    /\ IssuedOnly("shutdown") /\ ReportsChanged(res)

\* C5: state 'paused': observed running, exactly one suspend is issued and
\* changed=true is reported when core returns; any other observed state,
\* nothing is issued, the guest is left as it was and changed=false is
\* returned.
C5_PausedReconciled ==
    (Ended /\ StatePath("paused") /\ obs # <<>>) =>
        IF obs[1] = "running"
        THEN IssuedOnly("suspend") /\ (pc = "returned" => ReportsChanged(res))
        ELSE /\ IssuedNothing
             /\ pc = "returned"
             /\ ReportsUnchanged(res)
             /\ dom = dom0

C5_Witness ==
    /\ pc = "returned" /\ StatePath("paused")
    /\ obs = <<"shutdown">>
    /\ IssuedNothing /\ ReportsUnchanged(res) /\ dom = dom0

\* C6: a request that sets both state and command, or neither, fails
\* (fail_json) and invokes no hypervisor action.
C6_BothOrNeitherFails ==
    (/\ Ended
     /\ Truthy(req.state) = Truthy(req.command))
    => (pc = "failed" /\ IssuedNothing)

\* C7: define is idempotent: of two successive define invocations with the
\* same guest name and a valid xml document, starting with the guest absent,
\* the first reports changed=true and the second does not, the hypervisor
\* define is invoked exactly once, and the guest exists after each.
C7_DefineIdempotent ==
    (/\ Len(hist) = 2
     /\ hist[1].req.command = "define" /\ ~Truthy(hist[1].req.state)
     /\ Truthy(hist[1].req.name)
     /\ hist[1].req.xml \in ValidXml
     /\ ~hist[1].dom0[hist[1].req.name].ex)
    => (/\ ReportsChanged(hist[1].res)
        /\ ~ReportsChanged(hist[2].res)
        /\ Len(hist[1].issued) + Len(hist[2].issued) = 1
        /\ hist[1].dom[hist[1].req.name].ex
        /\ hist[2].dom[hist[1].req.name].ex)

\* event_callback has been invoked with this event
Notified(event) == \E i \in DOMAIN notified : notified[i] = event
\* wait_for_state has returned
WaiterReturned == wret # <<>>

\* C8: once the lifecycle callback has reported the target state, the waiter
\* returns success (0), before the 5000 ms deadline.
C8_NotifiedReturnsSuccess ==
    (WaiterReturned /\ Notified(target_state))
    => (wret = <<0>> /\ clock < end_time)

\* C9: the waiter terminates: a wait loop that was entered is left and the
\* waiter returns; when no notification of the target state arrived, it
\* returns the timeout outcome (-1), and not before the 5000 ms budget is
\* used up.
C9_TimeoutOutcome ==
    (WaiterReturned /\ ~Notified(target_state))
    => (wret = <<-1>> /\ clock >= end_time)

C9_WaiterTerminates ==
    /\ []C9_TimeoutOutcome
    /\ (pc = "w_loop") ~> WaiterReturned

C9_Witness ==
    /\ pc = "returned"
    /\ wret = <<-1>>
    /\ ~Notified(target_state)
    /\ IssuedOnly("shutdown")
    /\ clock >= end_time

\* C10: when the waiter has returned, the timer it armed and the lifecycle
\* listener it registered are gone; every finished invocation whose waiter
\* returned left no timer and no listener behind.
C10_WaiterReleases ==
    /\ WaiterReturned => (timers = {} /\ listeners = {})
    /\ \A i \in DOMAIN hist :
          hist[i].wret # <<>> => (hist[i].timers = {} /\ hist[i].listeners = {})

C10_Witness ==
    /\ Len(hist) = 2
    /\ hist[1].wret = <<-1>> /\ hist[2].wret = <<-1>>
    /\ hist[1].timers = {} /\ hist[1].listeners = {}
    /\ hist[2].timers = {} /\ hist[2].listeners = {}

\* a lifecycle listener is attached to the guest
Listening(n) == \E l \in listeners : l.dom = n
\* the step invokes the hypervisor action op
Issues(op) ==
    /\ Len(issued') = Len(issued) + 1
    /\ issued'[Len(issued')][1] = op

\* C11: in the waiter the lifecycle listener of the guest is registered and
\* the timeout armed strictly before the action is invoked, and no lifecycle
\* event of the guest occurs in the wait without reaching the listener.
C11_RegisterBeforeAct ==
    [][/\ Issues("shutdown") =>
             (Listening(req.name) /\ timer_id \in timers)
       /\ (pc \in {"w_action", "w_loop"} /\ dom'[req.name] # dom[req.name]) =>
             (Listening(req.name) /\ Len(evq') = Len(evq) + 1)]_vars

C11_Witness ==
    /\ pc = "w_loop"
    /\ IssuedOnly("shutdown")
    /\ Listening(req.name) /\ timer_id \in timers
    /\ evq = <<VIR_DOMAIN_EVENT_STOPPED>>

\* C12: the hypervisor connection opened for an invocation is closed on every
\* exit path of processing.
C12_ConnectionReleased ==
    /\ pc = "idle" => ~connOpen
    /\ \A i \in DOMAIN hist : ~hist[i].connOpen

\* the invocation took the command branch of core with a guest-scoped command
\* out of cmds and a guest name
VmCommandPath(cmds) ==
    /\ ~Truthy(req.state)
    /\ req.command \in cmds
    /\ Truthy(req.name)
\* the named guest did not exist when the invocation started
AbsentAtStart == Truthy(req.name) /\ ~dom0[req.name].ex
\* core ended in a failure (an exception, which main turns into fail_json, or
\* fail_json itself) and no hypervisor action was invoked
AbortedUntouched == pc \in {"raised", "failed"} /\ IssuedNothing /\ dom = dom0

\* C13 as stated: a guest lookup failure is fatal for every guest-scoped
\* operation other than state=shutdown, state=destroyed and undefine.
C13_NotFoundFatalButThree ==
    (/\ Ended
     /\ AbsentAtStart
     /\ \/ StatePath("running")
        \/ StatePath("paused")
        \/ VmCommandPath(VM_COMMANDS \ {"undefine"}))
    => AbortedUntouched

\* C13, amended: a guest lookup failure is fatal for every guest-scoped
\* operation other than state=shutdown, state=destroyed, undefine and define:
\* state=running, state=paused and the commands create, status, start, stop,
\* pause, unpause, shutdown, destroy, get_xml and autostart on an absent
\* guest end in a failure, with no result and no hypervisor action invoked.
C13_NotFoundFatal ==
    (/\ Ended
     /\ AbsentAtStart
     /\ \/ StatePath("running")
        \/ StatePath("paused")
        \/ VmCommandPath(VM_COMMANDS \ {"undefine", "define"}))
    => (AbortedUntouched /\ Outcome(pc) = "fail_json")

C13_Witness ==
    /\ pc = "raised" /\ exc = "VMNotFound"
    /\ VmCommandPath({"destroy"})
    /\ AbsentAtStart
    /\ IssuedNothing /\ dom = dom0

\* invocation i was the command undefine on a named guest
UndefineOf(i) ==
    /\ ~Truthy(hist[i].req.state)
    /\ hist[i].req.command = "undefine"
    /\ Truthy(hist[i].req.name)

ListVmsFiltered == Truthy(req.state) /\ req.command = "list_vms"

\* C15: list_vms with a state filter returns exactly the names of the known
\* guests whose classified state equals the filter, leaving out every guest
\* whose state read raised; it does not fail and it invokes no hypervisor
\* action.
C15_ListVmsFiltered ==
    (Ended /\ ListVmsFiltered) =>
        /\ pc = "returned"
        /\ res = ("list_vms" :>
                    {n \in Names : /\ dom0[n].ex
                                   /\ n \notin readFailed
                                   /\ VIRT_STATE_NAME_MAP(dom0[n].st) = req.state})
        /\ IssuedNothing
        /\ dom = dom0

\* a running guest is listed while another running guest, whose state read
\* raised, and a guest in another state are not
C15_Witness ==
    /\ pc = "returned" /\ ListVmsFiltered /\ req.state = "running"
    /\ VIRT_STATE_NAME_MAP(dom0["a"].st) = "running" /\ dom0["a"].ex
    /\ VIRT_STATE_NAME_MAP(dom0["b"].st) = "running" /\ dom0["b"].ex
    /\ readFailed = {"b"}
    /\ res = ("list_vms" :> {"a"})

\* the waiter of this invocation gave up: its budget ran out before it saw
\* the target state, and it returned -1
WaiterTimedOut == wret = <<-1>> /\ clock >= end_time

\* C16: state 'shutdown' on a guest observed outside shutdown, shutting_down
\* and crashed, with the waiter ending in its timeout: core returns (no
\* failure) with changed=true and the waiter's -1 as msg, and shutdown was
\* invoked exactly once.
C16_TimeoutIsSuccess ==
    (/\ Ended
     /\ StatePath("shutdown")
     /\ obs # <<>> /\ obs[1] \notin {"shutdown", "shutting_down", "crashed"}
     /\ WaiterTimedOut)
    => (/\ pc = "returned"
        /\ ReportsChanged(res)
        /\ res["msg"] = -1
        /\ IssuedOnly("shutdown"))

\* the guest ignored the request: no lifecycle event came, the timer ran out
C16_Witness ==
    /\ pc = "returned" /\ StatePath("shutdown")
    /\ obs = <<"running">>
    /\ WaiterTimedOut /\ notified = <<>>
    /\ Active(dom[req.name])
    /\ res = [changed |-> TRUE, msg |-> -1]
    /\ IssuedOnly("shutdown")

\* control is outside the part of wait_for_state that holds registrations
OutsideWaiter == pc \notin {"w_action", "w_loop", "w_cleanup"}

\* C17: on every exit from the waiter, the exit by an error of the invoked
\* action included, the lifecycle listener has been deregistered and the
\* timer removed: no registration exists while control is outside the waiter.
C17_NoRegistrationOutlives ==
    OutsideWaiter => (timers = {} /\ listeners = {})

\* the invocation was a guest command from cmds on a guest that existed
ExistingGuestCommand(cmds) == VmCommandPath(cmds) /\ dom0[req.name].ex

\* C18: in command mode no guest-scoped command of the interface, given the
\* name of an existing guest, fails for want of a method of that name.
C18_EveryCommandHasHandler ==
    (Ended /\ ExistingGuestCommand(VM_COMMANDS)) => exc # "AttributeError"

\* invocation i was a state request on a named guest
StateRequestOf(i) ==
    /\ hist[i].req.state \in STATE_CHOICES
    /\ hist[i].req.command # "list_vms"
    /\ Truthy(hist[i].req.name)

\* a hypervisor action op was invoked in invocation i
IssuedIn(i, op) == \E k \in DOMAIN hist[i].issued : hist[i].issued[k][1] = op

\* Between invocations i-1 and i nothing happened to the guests but the
\* requested graceful shutdown, if there was one, running to its end.
SettledBefore(i) ==
    IF IssuedIn(i - 1, "shutdown")
    THEN ~Active(hist[i].dom0[hist[i].req.name])
    ELSE hist[i].dom0 = hist[i - 1].dom

\* C19: two successive invocations with the same state request: if the first
\* succeeded and its action has taken effect with no other change to the
\* guests, the second succeeds, reports changed=false and invokes no
\* hypervisor action.
C19_ReconcileIdempotent ==
    \A i \in DOMAIN hist :
       (/\ i > 1
        /\ StateRequestOf(i)
        /\ hist[i].req = hist[i - 1].req
        /\ hist[i - 1].outcome = "exit_json"
        /\ SettledBefore(i))
       => (/\ hist[i].outcome = "exit_json"
           /\ ReportsUnchanged(hist[i].res)
           /\ hist[i].issued = <<>>)

C19_Witness ==
    /\ Len(hist) = 2
    /\ StateRequestOf(2) /\ hist[2].req.state = "destroyed"
    /\ hist[1].outcome = "exit_json"
    /\ hist[1].issued = <<<<"destroy", "a">>>>
    /\ ReportsChanged(hist[1].res)
    /\ hist[2].dom0 = hist[1].dom
    /\ hist[2].dom0["a"].ex
    /\ hist[2].outcome = "exit_json"
    /\ ReportsUnchanged(hist[2].res)
    /\ hist[2].issued = <<>>

\* The guest was there when core read its status and was gone, with no
\* hypervisor action invoked, when core ended.
RemovedBeforeAction ==
    /\ obs # <<>>
    /\ ~dom[req.name].ex
    /\ IssuedNothing

\* C20: state 'shutdown' or 'destroyed' when the guest is removed by another
\* client after core has read its status and before the action looks it up:
\* the invocation ends as for an absent guest, without failure and with
\* changed=false.
C20_RemovedActsAsAbsent ==
    (/\ Ended
     /\ StatePath("shutdown") \/ StatePath("destroyed")
     /\ RemovedBeforeAction)
    => (pc = "returned" /\ ReportsUnchanged(res))

====
